---- MODULE Spec2Model ----
(***************************************************************************)
(* A model of music_bot/music_cog.py (MusicCog): the registry of audio     *)
(* players, the join / leave / play commands with their suspension points, *)
(* the voice-state listener and the playlist enqueue loop.                 *)
(*                                                                         *)
(* Every command of discord.py runs as its own coroutine on one asyncio    *)
(* event loop: the code between two awaits is atomic, and at an await any  *)
(* other coroutine may run.  One action of the model is one such atomic    *)
(* segment.  A command that suspends keeps its position in a slot of cmd.  *)
(***************************************************************************)
EXTENDS Integers, Sequences, FiniteSets, TLC

\* ---------------------------------------------------------------- bounds
NumGuilds == 2
NumChannels == 2
NumUsers == 2
NumSlots == 2
MaxHandles == 2
MaxPlays == 1
PlaylistLen == 3
MaxHistory == 3
MaxRivals == 2

Guilds == 1..NumGuilds
Users == 1..NumUsers
Slots == 1..NumSlots
Handles == 1..MaxHandles
Entries == 1..PlaylistLen

\* None for an audio player, a context or a slot; a channel is <<guild, n>>;
\* a song is <<request, entry>>: the entry-th song of the request-th play
\* command (entry 0: its single song).
None == 0
NoChannel == <<0, 0>>
NoSong == <<0, 0>>
Channels == Guilds \X (1..NumChannels)
ChannelsOf(G) == G \X (1..NumChannels)

\* The guild of the specifications about one session.
OneGuild == {1}

VARIABLES
    audio_players,      \* self.audio_players: guild id -> handle, None if absent
    created,            \* number of AudioPlayer objects constructed so far
    voice_client,       \* AudioPlayer.voice_client: handle -> channel or NoChannel
    guild_voice,        \* guild.voice_client (ctx.voice_client): guild -> channel
    audio_player_task,  \* AudioPlayer.audio_player_task: "none", "running", "done"
    live_drivers,       \* handle -> number of driver tasks that are not done
    song_queue,         \* AudioPlayer.song_queue: handle -> sequence of songs
    current_song,       \* AudioPlayer.current_song: handle -> song or NoSong
    member_channel,     \* voice channel each user is in, or NoChannel
    cmd,                \* slot -> the suspended command coroutine held there
    entry_state,        \* slot -> entry -> "unresolved", "resolved", "failed"
    song_factory_ctx,   \* self.song_factory.ctx: the slot of the command set
    plays,              \* number of play / playnext commands dispatched
    report,             \* the last outcome told to a user, and the slot it was for
    add_log,            \* slot -> entries its enqueue loop added, in order
    resolve_log,        \* slot -> entries in the order their signals fired
    running,            \* slot of the coroutine holding the event loop, or None
    prev_songs,         \* AudioPlayer.prev_songs: handle -> songs played, last last
    is_queue_looping,   \* AudioPlayer.is_queue_looping: handle -> BOOLEAN
    paused,             \* handle -> the voice client is paused
    handled,            \* what cog_command_error did with the last error
    enable_usage_database,  \* config.enable_usage_database
    insert_failed,      \* slot -> entries whose usage record failed (0: the single song)
    removed_song        \* the song the last remove told the user it removed

vars == <<audio_players, created, voice_client, guild_voice, audio_player_task,
          live_drivers, song_queue, current_song, member_channel, cmd,
          entry_state, song_factory_ctx, plays, report, add_log, resolve_log,
          running, prev_songs, is_queue_looping, paused, handled,
          enable_usage_database, insert_failed, removed_song>>

sessionVars == <<audio_players, created, voice_client, guild_voice,
                 audio_player_task, live_drivers>>
playlistVars == <<entry_state, add_log, resolve_log, running>>
controlVars == <<prev_songs, is_queue_looping, paused, handled,
                 enable_usage_database, insert_failed, removed_song>>

IdleCmd == [op |-> "idle", pc |-> "idle", guild |-> None, player |-> None,
            dest |-> NoChannel, idx |-> 0, play_next |-> FALSE,
            playlist |-> FALSE, req |-> 0]

ChannelGuild(ch) == ch[1]

\* ctx.author.voice.channel of user u in guild g (NoChannel: not in voice there)
AuthorVoice(g, u) ==
    IF member_channel[u] # NoChannel /\ ChannelGuild(member_channel[u]) = g
    THEN member_channel[u] ELSE NoChannel

NoError == [error |-> "none", sent |-> 0, raised |-> FALSE]

\* The cog after __init__, with the users in the voice channels `where` and
\* the usage database enabled or not.
InitState(where, usage) ==
    /\ audio_players = [g \in Guilds |-> None]
    /\ created = 0
    /\ voice_client = [h \in Handles |-> NoChannel]
    /\ guild_voice = [g \in Guilds |-> NoChannel]
    /\ audio_player_task = [h \in Handles |-> "none"]
    /\ live_drivers = [h \in Handles |-> 0]
    /\ song_queue = [h \in Handles |-> <<>>]
    /\ current_song = [h \in Handles |-> NoSong]
    /\ member_channel = where
    /\ cmd = [s \in Slots |-> IdleCmd]
    /\ entry_state = [s \in Slots |-> [i \in Entries |-> "unresolved"]]
    /\ song_factory_ctx = None
    /\ plays = 0
    /\ report = [slot |-> None, what |-> "none"]
    /\ add_log = [s \in Slots |-> <<>>]
    /\ resolve_log = [s \in Slots |-> <<>>]
    /\ running = None
    /\ prev_songs = [h \in Handles |-> <<>>]
    /\ is_queue_looping = [h \in Handles |-> FALSE]
    /\ paused = [h \in Handles |-> FALSE]
    /\ handled = NoError
    /\ enable_usage_database = usage
    /\ insert_failed = [s \in Slots |-> {}]
    /\ removed_song = NoSong

InitWith(where) == InitState(where, FALSE)

Init == InitWith([u \in Users |-> NoChannel])

\* ------------------------------------------------------ get_audio_player
\* A variant that constructs a player at every call.
get_audio_player_always_new(g) ==
    [player |-> created + 1,
     players |-> [audio_players EXCEPT ![g] = created + 1],
     created |-> created + 1]

\* The handle get_audio_player(guild_id) returns, with the registry and the
\* number of constructed players after the call.
get_audio_player(g) ==
    IF audio_players[g] # None
    THEN [player |-> audio_players[g], players |-> audio_players,
          created |-> created]
    ELSE [player |-> created + 1,
          players |-> [audio_players EXCEPT ![g] = created + 1],
          created |-> created + 1]

\* The model holds at most MaxHandles players.
CanGet(g) == get_audio_player(g).created <= MaxHandles

\* ------------------------------------------------- AudioPlayer (not in src)
\* start_audio_player: creates the driver task and stores it.
start_audio_player(h) ==
    /\ audio_player_task' = [audio_player_task EXCEPT ![h] = "running"]
    /\ live_drivers' = [live_drivers EXCEPT ![h] = @ + 1]

\* A variant of the lines below without their condition.
start_unguarded(h) == start_audio_player(h)

\* join, lines 255-259: the driver is started unless one is running.
start_if_not_running(h) ==
    IF audio_player_task[h] = "none" \/ audio_player_task[h] = "done"
    THEN start_audio_player(h)
    ELSE UNCHANGED <<audio_player_task, live_drivers>>

\* AudioPlayer.leave up to its await: the driver task is cancelled.
cancel_driver(h) ==
    IF audio_player_task[h] = "running"
    THEN /\ audio_player_task' = [audio_player_task EXCEPT ![h] = "done"]
         /\ live_drivers' = [live_drivers EXCEPT ![h] = @ - 1]
    ELSE UNCHANGED <<audio_player_task, live_drivers>>

\* AudioPlayer.leave after its await: the sink is disconnected.
disconnect_sink(h) ==
    /\ voice_client' = [voice_client EXCEPT ![h] = NoChannel]
    /\ guild_voice' =
         IF voice_client[h] # NoChannel
            /\ guild_voice[ChannelGuild(voice_client[h])] = voice_client[h]
         THEN [guild_voice EXCEPT ![ChannelGuild(voice_client[h])] = NoChannel]
         ELSE guild_voice

\* ------------------------------------------------------------ the slots
\* The coroutine of slot s can be resumed: no other coroutine is running.
Resumable(s) == running = None \/ running = s

\* A command that suspends takes the first free slot.
IsFree(s) ==
    /\ running = None
    /\ cmd[s].op = "idle"
    /\ \A t \in Slots : t < s => cmd[t].op # "idle"

Finish(s, what) ==
    /\ cmd' = [cmd EXCEPT ![s] = IdleCmd]
    /\ report' = [slot |-> s, what |-> what]

\* ------------------------------------------------ ensure_voice_connection
\* A hook that tests only that the requester is in a voice channel.
ensure_author_in_voice(g, u) == AuthorVoice(g, u) # NoChannel

\* TRUE when the before-invoke hook of join and play lets the command run.
ensure_voice_connection(g, u) ==
    /\ AuthorVoice(g, u) # NoChannel
    /\ guild_voice[g] # NoChannel => guild_voice[g] = AuthorVoice(g, u)

\* ------------------------------------------------------------------ join
\* The body of join up to its await, run for the command c of slot s:
\* move_to when the player has a voice client, else destination.connect(),
\* which raises ClientException when the guild already has a voice client.
join_begin(s, c) ==
    IF voice_client[c.player] # NoChannel
    THEN /\ cmd' = [cmd EXCEPT ![s] = [c EXCEPT !.pc = "move"]]
         /\ UNCHANGED <<report, guild_voice>>
    ELSE IF guild_voice[c.guild] # NoChannel
    THEN /\ report' = [slot |-> s, what |-> "raised"]
         /\ UNCHANGED <<cmd, guild_voice>>
    ELSE /\ cmd' = [cmd EXCEPT ![s] = [c EXCEPT !.pc = "connect"]]
         /\ UNCHANGED report
         /\ guild_voice' = [guild_voice EXCEPT ![c.guild] = c.dest]

\* The join command is dispatched by user u in guild g: the hooks
\* (ensure_voice_connection, then cog_before_invoke) and the body to its await.
join_dispatch(s, g, u) ==
    /\ IsFree(s)
    /\ IF ~ensure_voice_connection(g, u)
       THEN /\ report' = [slot |-> s, what |-> "CommandError"]
            /\ UNCHANGED <<audio_players, created, guild_voice, cmd>>
       ELSE /\ CanGet(g)
            /\ audio_players' = get_audio_player(g).players
            /\ created' = get_audio_player(g).created
            /\ join_begin(s, [IdleCmd EXCEPT !.op = "join", !.guild = g,
                                 !.player = get_audio_player(g).player,
                                 !.dest = AuthorVoice(g, u)])
    /\ UNCHANGED <<voice_client, audio_player_task, live_drivers, song_queue,
                   current_song, member_channel, song_factory_ctx, plays,
                   playlistVars,
                   controlVars>>

\* The await of join returns, in the join command or in a play command that
\* invoked join: the voice client is stored or moved, and the driver is
\* started unless one is running.  A play command goes on to ctx.typing().
join_resume(s) ==
    LET p == cmd[s].player
        g == cmd[s].guild IN
    /\ Resumable(s)
    /\ cmd[s].op \in {"join", "play"}
    /\ cmd[s].pc \in {"connect", "move"}
    /\ IF cmd[s].pc = "connect"
       THEN /\ voice_client' = [voice_client EXCEPT ![p] = cmd[s].dest]
            /\ UNCHANGED guild_voice
       ELSE IF voice_client[p] # NoChannel
       THEN /\ voice_client' = [voice_client EXCEPT ![p] = cmd[s].dest]
            /\ guild_voice' = IF guild_voice[g] = voice_client[p]
                              THEN [guild_voice EXCEPT ![g] = cmd[s].dest]
                              ELSE guild_voice
       ELSE UNCHANGED <<voice_client, guild_voice>>
    /\ start_if_not_running(p)
    /\ IF cmd[s].op = "join"
       THEN Finish(s, "ok")
       ELSE /\ cmd' = [cmd EXCEPT ![s].pc = "typing"]
            /\ UNCHANGED report
    /\ UNCHANGED <<audio_players, created, song_queue, current_song,
                   member_channel, song_factory_ctx, plays, playlistVars,
                   controlVars>>

\* ----------------------------------------------------------------- leave
\* del self.audio_players[ctx.guild.id]
del_audio_player(g) == [audio_players EXCEPT ![g] = None]

\* The leave command is dispatched in guild g: cog_before_invoke, then
\* AudioPlayer.leave to its await, or to its return of False.
leave_dispatch(s, g) ==
    LET r == get_audio_player(g) IN
    /\ IsFree(s)
    /\ CanGet(g)
    /\ created' = r.created
    /\ audio_players' = r.players
    /\ IF voice_client[r.player] = NoChannel
       THEN /\ report' = [slot |-> s, what |-> "not_connected"]
            /\ UNCHANGED <<cmd, audio_player_task, live_drivers>>
       ELSE /\ cancel_driver(r.player)
            /\ cmd' = [cmd EXCEPT ![s] = [IdleCmd EXCEPT !.op = "leave",
                           !.pc = "disconnect", !.guild = g, !.player = r.player]]
            /\ UNCHANGED report
    /\ UNCHANGED <<voice_client, guild_voice, song_queue, current_song,
                   member_channel, song_factory_ctx, plays, playlistVars,
                   controlVars>>

\* AudioPlayer.leave returns True: the registry entry of the guild is deleted.
leave_resume(s) ==
    /\ Resumable(s)
    /\ cmd[s].op = "leave"
    /\ cmd[s].pc = "disconnect"
    /\ disconnect_sink(cmd[s].player)
    /\ IF audio_players[cmd[s].guild] = None
       THEN /\ Finish(s, "KeyError")
            /\ UNCHANGED audio_players
       ELSE /\ Finish(s, "left")
            /\ audio_players' = del_audio_player(cmd[s].guild)
    /\ UNCHANGED <<created, audio_player_task, live_drivers, song_queue,
                   current_song, member_channel, song_factory_ctx, plays,
                   playlistVars,
                   controlVars>>

\* ------------------------------------------------- on_voice_state_update
\* len(before.channel.voice_states) once u has left: the users still in the
\* channel, and the bot when the guild's voice client is there.
voice_states(ch, u) ==
    Cardinality({v \in Users \ {u} : member_channel[v] = ch})
      + (IF guild_voice[ChannelGuild(ch)] = ch THEN 1 ELSE 0)

\* The listener's conditions for AudioPlayer.leave, lines 237-243.
triggers_leave(u, before, after, p) ==
    /\ after = NoChannel
    /\ voice_client[p] # NoChannel
    /\ before = voice_client[p]
    /\ voice_states(before, u) <= 1

\* User u goes from its voice channel to `after` (NoChannel: disconnects;
\* its own channel: a mute or deafen), and the listener runs.
on_voice_state_update(s, u, after) ==
    LET before == member_channel[u]
        g == ChannelGuild(before)
        r == get_audio_player(g) IN
    /\ running = None
    /\ before # NoChannel \/ after # NoChannel
    /\ member_channel' = [member_channel EXCEPT ![u] = after]
    /\ IF before # NoChannel /\ after = NoChannel
       THEN /\ CanGet(g)
            /\ created' = r.created
            /\ audio_players' = r.players
            /\ IF triggers_leave(u, before, after, r.player)
               THEN /\ IsFree(s)
                    /\ cancel_driver(r.player)
                    /\ cmd' = [cmd EXCEPT ![s] = [IdleCmd EXCEPT
                                   !.op = "autoleave", !.pc = "disconnect",
                                   !.guild = g, !.player = r.player]]
               ELSE /\ s = 1
                    /\ UNCHANGED <<cmd, audio_player_task, live_drivers>>
       ELSE /\ s = 1
            /\ UNCHANGED <<audio_players, created, cmd, audio_player_task,
                           live_drivers>>
    /\ UNCHANGED <<voice_client, guild_voice, song_queue, current_song,
                   song_factory_ctx, plays, report, playlistVars,
                   controlVars>>

\* AudioPlayer.leave, awaited by the listener, returns.
autoleave_resume(s) ==
    /\ Resumable(s)
    /\ cmd[s].op = "autoleave"
    /\ cmd[s].pc = "disconnect"
    /\ disconnect_sink(cmd[s].player)
    /\ cmd' = [cmd EXCEPT ![s] = IdleCmd]
    /\ UNCHANGED <<audio_players, created, audio_player_task, live_drivers,
                   song_queue, current_song, member_channel, song_factory_ctx,
                   plays, report, playlistVars,
                   controlVars>>

\* ------------------------------------------------- AudioPlayer (not in src)
\* add_to_song_queue: at the head for play_next, else at the tail.
add_to_song_queue(h, song, play_next) ==
    song_queue' = [song_queue EXCEPT
                     ![h] = IF play_next THEN <<song>> \o @ ELSE Append(@, song)]

\* clear_song_queue
clear_song_queue(h) == song_queue' = [song_queue EXCEPT ![h] = <<>>]

\* The driver task of player h, idle, takes the next song from the head of
\* the queue.
driver_play_next(h) ==
    /\ running = None
    /\ audio_player_task[h] = "running"
    /\ current_song[h] = NoSong
    /\ song_queue[h] # <<>>
    /\ current_song' = [current_song EXCEPT ![h] = Head(song_queue[h])]
    /\ song_queue' = [song_queue EXCEPT ![h] = Tail(@)]
    /\ UNCHANGED <<sessionVars, member_channel, cmd, song_factory_ctx, plays,
                   report, playlistVars,
                   controlVars>>

\* ----------------------------------------------------------------- clear
\* A variant of clear that also drops the current song.
clear_dropping_current(g) ==
    LET r == get_audio_player(g) IN
    /\ running = None
    /\ CanGet(g)
    /\ created' = r.created
    /\ audio_players' = r.players
    /\ IF song_queue[r.player] = <<>>
       THEN /\ report' = [slot |-> None, what |-> "queue_empty"]
            /\ UNCHANGED <<song_queue, current_song>>
       ELSE /\ clear_song_queue(r.player)
            /\ current_song' = [current_song EXCEPT ![r.player] = NoSong]
            /\ report' = [slot |-> None, what |-> "cleared"]
    /\ UNCHANGED <<voice_client, guild_voice, audio_player_task, live_drivers,
                   member_channel, cmd, song_factory_ctx, plays,
                   playlistVars, controlVars>>

\* clear, lines 219-227.
clear(g) ==
    LET r == get_audio_player(g) IN
    /\ running = None
    /\ CanGet(g)
    /\ created' = r.created
    /\ audio_players' = r.players
    /\ IF song_queue[r.player] = <<>>
       THEN /\ report' = [slot |-> None, what |-> "queue_empty"]
            /\ UNCHANGED song_queue
       ELSE /\ clear_song_queue(r.player)
            /\ report' = [slot |-> None, what |-> "cleared"]
    /\ UNCHANGED <<voice_client, guild_voice, audio_player_task, live_drivers,
                   current_song, member_channel, cmd, song_factory_ctx, plays,
                   playlistVars,
                   controlVars>>

\* ------------------------------------------------------------------ _play
\* A variant of the wait below that holds the event loop until the signal
\* has fired.
wait_blocking(s, i) ==
    running' = IF i \in Entries /\ entry_state[s][i] = "unresolved"
               THEN s ELSE None

\* line 512: await song.is_processed_event.wait() suspends the command, and
\* the event loop runs the other coroutines.
wait_is_processed(s, i) == running' = None

\* The play (next = FALSE) or playnext (next = TRUE) command is dispatched
\* by user u in guild g, for a collection (pl) or a single song: the hooks,
\* then _play to its first await.  ensure_voice_connection is a hook of play
\* only; join is invoked when the player has no voice client.
play_begin(s, g, u, next, pl) ==
    LET r == get_audio_player(g)
        c == [IdleCmd EXCEPT !.op = "play", !.guild = g, !.player = r.player,
                             !.dest = AuthorVoice(g, u), !.play_next = next,
                             !.playlist = pl, !.req = plays + 1] IN
    /\ IsFree(s)
    /\ IF ~next /\ ~ensure_voice_connection(g, u)
       THEN /\ report' = [slot |-> s, what |-> "CommandError"]
            /\ UNCHANGED <<audio_players, created, guild_voice, cmd, plays,
                           entry_state, add_log, resolve_log>>
       ELSE /\ CanGet(g)
            /\ audio_players' = r.players
            /\ created' = r.created
            /\ plays' = plays + 1
            /\ entry_state' = [entry_state EXCEPT
                                 ![s] = [i \in Entries |-> "unresolved"]]
            /\ add_log' = [add_log EXCEPT ![s] = <<>>]
            /\ resolve_log' = [resolve_log EXCEPT ![s] = <<>>]
            /\ IF voice_client[r.player] # NoChannel
               THEN /\ cmd' = [cmd EXCEPT ![s] = [c EXCEPT !.pc = "typing"]]
                    /\ UNCHANGED <<report, guild_voice>>
               ELSE IF c.dest = NoChannel
               THEN /\ report' = [slot |-> s, what |-> "raised"]
                    /\ UNCHANGED <<cmd, guild_voice>>
               ELSE join_begin(s, c)
    /\ UNCHANGED <<voice_client, audio_player_task, live_drivers, song_queue,
                   current_song, member_channel, song_factory_ctx, running,
                   controlVars>>

\* The command is dispatched while fewer than MaxPlays play and playnext
\* commands were dispatched before it.
play_dispatch(s, g, u, next, pl) ==
    /\ plays < MaxPlays
    /\ play_begin(s, g, u, next, pl)

\* The command is dispatched while fewer than MaxRivals play and playnext
\* commands were dispatched before it.
play_rival(s, g, u, next, pl) ==
    /\ plays < MaxRivals
    /\ play_begin(s, g, u, next, pl)

\* ctx.typing() is entered: the song factory's context is set, and the song
\* or the playlist is being created.
play_typing(s) ==
    /\ Resumable(s)
    /\ cmd[s].op = "play"
    /\ cmd[s].pc = "typing"
    /\ song_factory_ctx' = s
    /\ cmd' = [cmd EXCEPT ![s].pc = "create"]
    /\ UNCHANGED <<sessionVars, song_queue, current_song, member_channel,
                   plays, report, playlistVars,
                   controlVars>>

\* The song factory returns.  A single song is added to the queue and the
\* user is told; for a playlist process_playlist is started as a task and
\* the loop waits for the first song.
play_created(s) ==
    /\ Resumable(s)
    /\ cmd[s].op = "play"
    /\ cmd[s].pc = "create"
    /\ IF cmd[s].playlist
       THEN /\ cmd' = [cmd EXCEPT ![s].pc = "loop", ![s].idx = 1]
            /\ wait_is_processed(s, 1)
            /\ UNCHANGED <<song_queue, report>>
       ELSE IF enable_usage_database
       THEN /\ cmd' = [cmd EXCEPT ![s].pc = "insert"]
            /\ UNCHANGED <<song_queue, report, running>>
       ELSE /\ add_to_song_queue(cmd[s].player, <<cmd[s].req, 0>>, cmd[s].play_next)
            /\ Finish(s, "queued")
            /\ UNCHANGED running
    /\ UNCHANGED <<sessionVars, current_song, member_channel,
                   song_factory_ctx, plays, entry_state, add_log, resolve_log,
                   controlVars>>

\* SongFactory.process_playlist (not in src): the readiness signal of entry i
\* fires, with the entry resolved (ok) or failed, in any order.
process_song(s, i, ok) ==
    /\ cmd[s].op = "play"
    /\ cmd[s].pc = "loop"
    /\ entry_state[s][i] = "unresolved"
    /\ entry_state' = [entry_state EXCEPT
                         ![s][i] = IF ok THEN "resolved" ELSE "failed"]
    /\ resolve_log' = [resolve_log EXCEPT ![s] = Append(@, i)]
    /\ UNCHANGED <<sessionVars, song_queue, current_song, member_channel, cmd,
                   song_factory_ctx, plays, report, add_log, running,
                   controlVars>>

\* A variant: the entry a loop that takes the songs as they are processed
\* would add.
next_any_processed(s) ==
    CHOOSE i \in Entries :
        /\ \A k \in DOMAIN add_log[s] : add_log[s][k] # i
        /\ entry_state[s][i] # "unresolved"
           \/ \A j \in Entries : (\A k \in DOMAIN add_log[s] : add_log[s][k] # j)
                                    => entry_state[s][j] = "unresolved"

\* The entry the loop adds once the signal of entry idx has fired.
next_ready(s) == cmd[s].idx

\* _play returns: its playlist and the songs' signals are no longer referenced.
playlist_released(s) ==
    /\ entry_state' = [entry_state EXCEPT ![s] = [i \in Entries |-> "unresolved"]]
    /\ resolve_log' = [resolve_log EXCEPT ![s] = <<>>]

\* A variant of the loop below that a failed entry ends.
loop_advance_stop_on_failure(s) ==
    IF entry_state[s][cmd[s].idx] = "failed"
    THEN /\ Finish(s, "raised")
         /\ playlist_released(s)
         /\ running' = None
    ELSE IF cmd[s].idx = PlaylistLen
    THEN /\ Finish(s, "finished")
         /\ playlist_released(s)
         /\ running' = None
    ELSE /\ cmd' = [cmd EXCEPT ![s].idx = @ + 1, ![s].pc = "loop"]
         /\ wait_is_processed(s, cmd[s].idx + 1)
         /\ UNCHANGED <<report, entry_state, resolve_log>>

\* The loop after entry idx was added, whatever its state: it awaits the
\* next entry or, after the last, reports that it finished.
loop_advance(s) ==
    IF cmd[s].idx = PlaylistLen
    THEN /\ Finish(s, "finished")
         /\ playlist_released(s)
         /\ running' = None
    ELSE /\ cmd' = [cmd EXCEPT ![s].idx = @ + 1, ![s].pc = "loop"]
         /\ wait_is_processed(s, cmd[s].idx + 1)
         /\ UNCHANGED <<report, entry_state, resolve_log>>

\* One round of the loop, lines 511-518: the signal of the awaited entry has
\* fired, and the entry is added to the queue.
playlist_next(s) ==
    LET i == next_ready(s) IN
    /\ Resumable(s)
    /\ cmd[s].op = "play"
    /\ cmd[s].pc = "loop"
    /\ ~enable_usage_database
    /\ entry_state[s][i] # "unresolved"
    /\ add_to_song_queue(cmd[s].player, <<cmd[s].req, i>>, cmd[s].play_next)
    /\ add_log' = [add_log EXCEPT ![s] = Append(@, i)]
    /\ loop_advance(s)
    /\ UNCHANGED <<sessionVars, current_song, member_channel,
                   song_factory_ctx, plays,
                   controlVars>>

\* ------------------------------------------------- AudioPlayer (not in src)
\* is_currently_playing: the player has a current song, playing or paused.
is_currently_playing(h) == current_song[h] # NoSong

\* pause: succeeds when a song is playing; the sink is suspended.
player_pause(h) ==
    IF is_currently_playing(h) /\ ~paused[h]
    THEN [ok |-> TRUE, paused |-> [paused EXCEPT ![h] = TRUE]]
    ELSE [ok |-> FALSE, paused |-> paused]

\* resume: succeeds when the current song is paused.
player_resume(h) ==
    IF is_currently_playing(h) /\ paused[h]
    THEN [ok |-> TRUE, paused |-> [paused EXCEPT ![h] = FALSE]]
    ELSE [ok |-> FALSE, paused |-> paused]

\* stop: the queue is cleared and the current song discarded, not recorded
\* in prev_songs; fails when nothing was playing and the queue was empty.
player_stop(h) ==
    IF is_currently_playing(h) \/ song_queue[h] # <<>>
    THEN [ok |-> TRUE,
          queue |-> [song_queue EXCEPT ![h] = <<>>],
          current |-> [current_song EXCEPT ![h] = NoSong],
          paused |-> [paused EXCEPT ![h] = FALSE]]
    ELSE [ok |-> FALSE, queue |-> song_queue, current |-> current_song,
          paused |-> paused]

\* skip: forward, the current song is halted and recorded in prev_songs;
\* back, the last of prev_songs is put at the head of the queue and the
\* current song is halted and discarded.  Fails when nothing is playing, and
\* back also when prev_songs is empty.
player_skip(h, back) ==
    IF ~is_currently_playing(h) \/ (back /\ prev_songs[h] = <<>>)
    THEN [ok |-> FALSE, queue |-> song_queue, current |-> current_song,
          paused |-> paused, prev |-> prev_songs]
    ELSE [ok |-> TRUE,
          queue |-> IF back
                    THEN [song_queue EXCEPT
                            ![h] = <<prev_songs[h][Len(prev_songs[h])]>> \o @]
                    ELSE song_queue,
          current |-> [current_song EXCEPT ![h] = NoSong],
          paused |-> [paused EXCEPT ![h] = FALSE],
          prev |-> IF back
                   THEN [prev_songs EXCEPT ![h] = SubSeq(@, 1, Len(@) - 1)]
                   ELSE [prev_songs EXCEPT ![h] = Append(@, current_song[h])]]

\* remove_from_song_queue(index=...): the song at the 0-based index is
\* removed and returned; NoSong, and no change, when the index is out of
\* range.
remove_from_song_queue(h, index) ==
    IF index >= 0 /\ index < Len(song_queue[h])
    THEN [song |-> song_queue[h][index + 1],
          queue |-> [song_queue EXCEPT
                       ![h] = SubSeq(@, 1, index) \o SubSeq(@, index + 2, Len(@))]]
    ELSE [song |-> NoSong, queue |-> song_queue]

\* The song the driver of player h plays finishes: it is recorded in
\* prev_songs, and added to the tail of the queue when the queue is looping.
driver_song_finished(h) ==
    /\ running = None
    /\ audio_player_task[h] = "running"
    /\ is_currently_playing(h)
    /\ ~paused[h]
    /\ Len(prev_songs[h]) < MaxHistory
    /\ prev_songs' = [prev_songs EXCEPT ![h] = Append(@, current_song[h])]
    /\ song_queue' = IF is_queue_looping[h]
                     THEN [song_queue EXCEPT ![h] = Append(@, current_song[h])]
                     ELSE song_queue
    /\ current_song' = [current_song EXCEPT ![h] = NoSong]
    /\ UNCHANGED <<sessionVars, member_channel, cmd, song_factory_ctx, plays,
                   report, playlistVars, is_queue_looping, paused, handled,
                   enable_usage_database, insert_failed, removed_song>>

\* ---------------------------------------------------- the control commands
\* What every control command leaves alone; cog_before_invoke gets the
\* player of guild g.
ControlFrame(g) ==
    /\ running = None
    /\ CanGet(g)
    /\ created' = get_audio_player(g).created
    /\ audio_players' = get_audio_player(g).players
    /\ UNCHANGED <<voice_client, guild_voice, audio_player_task, live_drivers,
                   member_channel, cmd, song_factory_ctx, plays, playlistVars,
                   handled, enable_usage_database, insert_failed>>

\* A variant of pause that does not look at what AudioPlayer.pause returns.
pause_report_ignoring_result(h) ==
    IF ~is_currently_playing(h) THEN "not_playing" ELSE "paused"

\* pause, lines 276-281: what the user is told.
pause_report(h) ==
    IF ~is_currently_playing(h) THEN "not_playing"
    ELSE IF ~player_pause(h).ok THEN "already_paused"
    ELSE "paused"

pause(g) ==
    LET h == get_audio_player(g).player IN
    /\ ControlFrame(g)
    /\ paused' = IF is_currently_playing(h) THEN player_pause(h).paused ELSE paused
    /\ report' = [slot |-> None, what |-> pause_report(h)]
    /\ UNCHANGED <<song_queue, current_song, prev_songs, is_queue_looping,
                   removed_song>>

\* resume, lines 286-292.
resume(g) ==
    LET h == get_audio_player(g).player IN
    /\ ControlFrame(g)
    /\ paused' = IF is_currently_playing(h) THEN player_resume(h).paused ELSE paused
    /\ report' = [slot |-> None,
                  what |-> IF ~is_currently_playing(h) THEN "not_playing"
                           ELSE IF ~player_resume(h).ok THEN "already_playing"
                           ELSE "resumed"]
    /\ UNCHANGED <<song_queue, current_song, prev_songs, is_queue_looping,
                   removed_song>>

\* A variant of stop that tells the user it stopped whatever stop returned.
stop_report_always(ok) == "stopped"

\* stop, lines 298-302: what the user is told.
stop_report(ok) == IF ok THEN "stopped" ELSE "not_playing"

stop(g) ==
    LET h == get_audio_player(g).player IN
    /\ ControlFrame(g)
    /\ song_queue' = player_stop(h).queue
    /\ current_song' = player_stop(h).current
    /\ paused' = player_stop(h).paused
    /\ report' = [slot |-> None, what |-> stop_report(player_stop(h).ok)]
    /\ UNCHANGED <<prev_songs, is_queue_looping, removed_song>>

\* skip, lines 314-319.
skip(g) ==
    LET h == get_audio_player(g).player
        r == player_skip(h, FALSE) IN
    /\ ControlFrame(g)
    /\ song_queue' = r.queue
    /\ current_song' = r.current
    /\ paused' = r.paused
    /\ prev_songs' = r.prev
    /\ report' = [slot |-> None, what |-> IF r.ok THEN "ok" ELSE "not_playing"]
    /\ UNCHANGED <<is_queue_looping, removed_song>>

\* A variant of back without its test.
back_unchecked(h) == FALSE

\* back, line 308: not ctx.audio_player.prev_songs
back_no_previous(h) == prev_songs[h] = <<>>

\* back, lines 304-312.
back(g) ==
    LET h == get_audio_player(g).player
        r == player_skip(h, TRUE) IN
    /\ ControlFrame(g)
    /\ IF back_no_previous(h)
       THEN /\ report' = [slot |-> None, what |-> "no_previous"]
            /\ UNCHANGED <<song_queue, current_song, paused, prev_songs>>
       ELSE /\ song_queue' = r.queue
            /\ current_song' = r.current
            /\ paused' = r.paused
            /\ prev_songs' = r.prev
            /\ report' = [slot |-> None,
                          what |-> IF r.ok THEN "ok" ELSE "not_playing"]
    /\ UNCHANGED <<is_queue_looping, removed_song>>

\* A variant of the index of remove that passes the position as it is.
remove_index_as_given(p) == p

\* remove, line 414: index=index - 1
remove_index(p) == p - 1

\* remove with the integer position p, lines 404-417 and 432.
remove(g, p) ==
    LET h == get_audio_player(g).player
        r == remove_from_song_queue(h, remove_index(p)) IN
    /\ ControlFrame(g)
    /\ IF song_queue[h] = <<>>
       THEN /\ report' = [slot |-> None, what |-> "empty_queue"]
            /\ UNCHANGED <<song_queue, removed_song>>
       ELSE IF r.song = NoSong
       THEN /\ report' = [slot |-> None, what |-> "invalid_index"]
            /\ UNCHANGED <<song_queue, removed_song>>
       ELSE /\ report' = [slot |-> None, what |-> "removed"]
            /\ removed_song' = r.song
            /\ song_queue' = r.queue
    /\ UNCHANGED <<current_song, paused, prev_songs, is_queue_looping>>

\* A variant that reports the flag as it was when the command came.
loop_report_before(h) == IF is_queue_looping[h] THEN "looping" ELSE "not_looping"

\* loop, lines 445-449: the flag is read after flip_is_queue_looping().
loop_report(h) == IF ~is_queue_looping[h] THEN "looping" ELSE "not_looping"

\* loop, lines 439-449.
loop(g) ==
    LET h == get_audio_player(g).player IN
    /\ ControlFrame(g)
    /\ is_queue_looping' = [is_queue_looping EXCEPT ![h] = ~@]
    /\ report' = [slot |-> None, what |-> loop_report(h)]
    /\ UNCHANGED <<song_queue, current_song, paused, prev_songs, removed_song>>

\* -------------------------------------------------------- usage database
\* A variant of insert_data that raises what went wrong.
insert_data_propagating(ok) == IF ok THEN "returned" ELSE "raised"

\* UsageDatabase.insert_data (not in src): a failure to record is logged and
\* not propagated.
insert_data(ok) == "returned"

\* One round of the loop with the usage database enabled, lines 511-513: the
\* signal of the awaited entry has fired, and insert_data is awaited.
playlist_record(s) ==
    /\ Resumable(s)
    /\ cmd[s].op = "play"
    /\ cmd[s].pc = "loop"
    /\ enable_usage_database
    /\ entry_state[s][next_ready(s)] # "unresolved"
    /\ cmd' = [cmd EXCEPT ![s].pc = "insert"]
    /\ UNCHANGED <<sessionVars, song_queue, current_song, member_channel,
                   song_factory_ctx, plays, report, playlistVars, controlVars>>

\* The await of insert_data ends, for the single song (lines 491-501) or for
\* an entry of the playlist (lines 514-518): after a return the song is added
\* to the queue; an exception would end the command, nothing catches it.
usage_insert(s, ok) ==
    LET i == cmd[s].idx IN
    /\ Resumable(s)
    /\ cmd[s].op = "play"
    /\ cmd[s].pc = "insert"
    /\ insert_failed' = [insert_failed EXCEPT
                           ![s] = IF ok THEN @ ELSE @ \cup {i}]
    /\ IF insert_data(ok) = "raised"
       THEN /\ Finish(s, "raised")
            /\ playlist_released(s)
            /\ running' = None
            /\ UNCHANGED <<song_queue, add_log>>
       ELSE /\ add_to_song_queue(cmd[s].player, <<cmd[s].req, i>>, cmd[s].play_next)
            /\ IF cmd[s].playlist
               THEN /\ add_log' = [add_log EXCEPT ![s] = Append(@, i)]
                    /\ loop_advance(s)
               ELSE /\ Finish(s, "queued")
                    /\ UNCHANGED <<add_log, entry_state, resolve_log, running>>
    /\ UNCHANGED <<sessionVars, current_song, member_channel,
                   song_factory_ctx, plays, prev_songs, is_queue_looping,
                   paused, handled, enable_usage_database, removed_song>>

\* ------------------------------------------------------ cog_command_error
\* The classes of the exceptions the handler is given.
ErrorKinds == {"CommandNotFound", "UserInputError", "YoutubeDLError",
               "SpotifyException", "CommandError", "CommandInvokeError"}

\* isinstance(error, cls) for the exception classes of discord.py and yt_dlp:
\* CommandNotFound, UserInputError and CommandInvokeError derive from
\* CommandError; YoutubeDLError and SpotifyException derive from Exception.
isinstance(e, cls) ==
    \/ e = cls
    \/ cls = "CommandError" /\ e \in {"CommandNotFound", "UserInputError",
                                       "CommandInvokeError"}

\* isinstance(error, 'SpotifyException') at line 178: the second argument is
\* a str, not a class, and the call raises TypeError for every error.
isinstance_str(e) == "TypeError"

\* The handler's chain of tests for an error of class e: the messages sent
\* to the user, and whether the handler itself raises.
command_error_outcome(e) ==
    IF isinstance(e, "CommandNotFound")
    THEN [error |-> e, sent |-> 1, raised |-> FALSE]
    ELSE IF isinstance(e, "UserInputError")
    THEN [error |-> e, sent |-> 1, raised |-> FALSE]
    ELSE IF isinstance(e, "YoutubeDLError")
    THEN [error |-> e, sent |-> 1, raised |-> FALSE]
    ELSE IF isinstance_str(e) = "TypeError"
    THEN [error |-> e, sent |-> 0, raised |-> TRUE]
    ELSE [error |-> e, sent |-> 1, raised |-> FALSE]

\* A command ended with an exception of class e and the handler runs.  The
\* hooks' CommandError reaches it as raised; an exception of a command body
\* that is not a CommandError (ClientException, KeyError) reaches it wrapped
\* in CommandInvokeError.  The other classes come from commands and
\* arguments outside this model.
cog_command_error(e) ==
    /\ running = None
    /\ e = "CommandError" => report.what = "CommandError"
    /\ e = "CommandInvokeError" => report.what \in {"raised", "KeyError"}
    /\ handled' = command_error_outcome(e)
    /\ UNCHANGED <<sessionVars, cmd, song_queue, current_song, member_channel,
                   song_factory_ctx, plays, report, playlistVars, prev_songs,
                   is_queue_looping, paused, enable_usage_database,
                   insert_failed, removed_song>>

\* ------------------------------------------------------ specifications
\* The users of one guild come and go, and join and leave are commanded.
VoiceNext ==
    \/ \E s \in Slots, g \in OneGuild, u \in Users : join_dispatch(s, g, u)
    \/ \E s \in Slots : join_resume(s)
    \/ \E s \in Slots, g \in OneGuild : leave_dispatch(s, g)
    \/ \E s \in Slots : leave_resume(s)
    \/ \E s \in Slots, u \in Users, after \in ChannelsOf(OneGuild) \cup {NoChannel} :
          on_voice_state_update(s, u, after)
    \/ \E s \in Slots : autoleave_resume(s)

SpecVoice == Init /\ [][VoiceNext]_vars

\* One guild whose users are in one voice channel.
InitInVoice == InitWith([u \in Users |-> <<1, 1>>])

\* The session commands of one guild: join, leave, and play and playnext of
\* a single song.
SessionNext ==
    \/ \E s \in Slots, g \in OneGuild, u \in Users : join_dispatch(s, g, u)
    \/ \E s \in Slots : join_resume(s)
    \/ \E s \in Slots, g \in OneGuild : leave_dispatch(s, g)
    \/ \E s \in Slots : leave_resume(s)
    \/ \E s \in Slots, g \in OneGuild, u \in Users, next \in BOOLEAN :
          play_dispatch(s, g, u, next, FALSE)
    \/ \E s \in Slots : play_typing(s)
    \/ \E s \in Slots : play_created(s)

SpecSession == InitInVoice /\ [][SessionNext]_vars

\* The play commands of one guild (one collection at a time), the resolution
\* of the entries, clear and the driver.
PlaylistNext ==
    \/ \E s \in Slots, g \in OneGuild, u \in Users, next \in BOOLEAN, pl \in BOOLEAN :
          /\ pl => \A t \in Slots : ~cmd[t].playlist
          /\ play_dispatch(s, g, u, next, pl)
    \/ \E s \in Slots : join_resume(s)
    \/ \E s \in Slots : play_typing(s)
    \/ \E s \in Slots : play_created(s)
    \/ \E s \in Slots, i \in Entries, ok \in BOOLEAN : process_song(s, i, ok)
    \/ \E s \in Slots : playlist_next(s)
    \/ \E g \in OneGuild : clear(g)
    \/ \E h \in Handles : driver_play_next(h)

SpecPlaylist == InitInVoice /\ [][PlaylistNext]_vars

\* The same with the leave command.
TeardownNext ==
    \/ PlaylistNext
    \/ \E s \in Slots, g \in OneGuild : leave_dispatch(s, g)
    \/ \E s \in Slots : leave_resume(s)

SpecTeardown == InitInVoice /\ [][TeardownNext]_vars

\* The play commands and the resolution of the entries, every coroutine that
\* can run being run in the end and every signal firing in the end.
LiveNext ==
    \/ \E s \in Slots, g \in OneGuild, u \in Users, next \in BOOLEAN, pl \in BOOLEAN :
          /\ pl => \A t \in Slots : ~cmd[t].playlist
          /\ play_dispatch(s, g, u, next, pl)
    \/ \E s \in Slots : join_resume(s)
    \/ \E s \in Slots : play_typing(s)
    \/ \E s \in Slots : play_created(s)
    \/ \E s \in Slots, i \in Entries, ok \in BOOLEAN : process_song(s, i, ok)
    \/ \E s \in Slots : playlist_next(s)

SpecLive ==
    /\ InitInVoice
    /\ [][LiveNext]_vars
    /\ \A s \in Slots :
          /\ WF_vars(join_resume(s))
          /\ WF_vars(play_typing(s))
          /\ WF_vars(play_created(s))
          /\ WF_vars(playlist_next(s))
          /\ \A i \in Entries : WF_vars(\E ok \in BOOLEAN : process_song(s, i, ok))

\* Songs are played in one guild and the driver plays them, while the
\* commands of the playback state machine come.
ControlNext ==
    \/ \E s \in Slots, g \in OneGuild, u \in Users, next \in BOOLEAN :
          play_dispatch(s, g, u, next, FALSE)
    \/ \E s \in Slots : join_resume(s)
    \/ \E s \in Slots : play_typing(s)
    \/ \E s \in Slots : play_created(s)
    \/ \E h \in Handles : driver_play_next(h)
    \/ \E h \in Handles : driver_song_finished(h)
    \/ \E g \in OneGuild : pause(g)
    \/ \E g \in OneGuild : resume(g)
    \/ \E g \in OneGuild : stop(g)
    \/ \E g \in OneGuild : skip(g)
    \/ \E g \in OneGuild : back(g)
    \/ \E g \in OneGuild : loop(g)

SpecControl == InitInVoice /\ [][ControlNext]_vars

\* A collection is played in one guild, its entries resolving in collection
\* order, while the driver takes the songs and skip, back, stop, remove,
\* loop and clear are commanded.
RemovePositions == (0 - 1)..(PlaylistLen + 1)

QueueNext ==
    \/ \E s \in Slots, g \in OneGuild, u \in Users :
          /\ \A t \in Slots : cmd[t].op = "idle"
          /\ play_dispatch(s, g, u, FALSE, TRUE)
    \/ \E s \in Slots : join_resume(s)
    \/ \E s \in Slots : play_typing(s)
    \/ \E s \in Slots : play_created(s)
    \/ \E s \in Slots : process_song(s, cmd[s].idx, TRUE)
    \/ \E s \in Slots : playlist_next(s)
    \/ \E h \in Handles : driver_play_next(h)
    \/ \E g \in OneGuild : skip(g)
    \/ \E g \in OneGuild : back(g)
    \/ \E g \in OneGuild : stop(g)
    \/ \E g \in OneGuild, p \in RemovePositions : remove(g, p)
    \/ \E g \in OneGuild : loop(g)
    \/ \E g \in OneGuild : clear(g)

SpecQueue == InitInVoice /\ [][QueueNext]_vars

\* A collection is played in one guild, its entries resolving in collection
\* order, while the driver plays the songs to their end and loop is commanded.
LoopNext ==
    \/ \E s \in Slots, g \in OneGuild, u \in Users :
          /\ \A t \in Slots : cmd[t].op = "idle"
          /\ play_dispatch(s, g, u, FALSE, TRUE)
    \/ \E s \in Slots : join_resume(s)
    \/ \E s \in Slots : play_typing(s)
    \/ \E s \in Slots : play_created(s)
    \/ \E s \in Slots : process_song(s, cmd[s].idx, TRUE)
    \/ \E s \in Slots : playlist_next(s)
    \/ \E h \in Handles : driver_play_next(h)
    \/ \E h \in Handles : driver_song_finished(h)
    \/ \E g \in OneGuild : loop(g)

SpecLoop == InitInVoice /\ [][LoopNext]_vars

\* The play commands with the usage database enabled; the entries of a
\* collection are resolved in collection order.
InitUsage == InitState([u \in Users |-> <<1, 1>>], TRUE)

UsageNext ==
    \/ \E s \in Slots, g \in OneGuild, u \in Users, next \in BOOLEAN, pl \in BOOLEAN :
          /\ pl => \A t \in Slots : ~cmd[t].playlist
          /\ play_dispatch(s, g, u, next, pl)
    \/ \E s \in Slots : join_resume(s)
    \/ \E s \in Slots : play_typing(s)
    \/ \E s \in Slots : play_created(s)
    \/ \E s \in Slots, ok \in BOOLEAN : process_song(s, cmd[s].idx, ok)
    \/ \E s \in Slots : playlist_record(s)
    \/ \E s \in Slots, ok \in BOOLEAN : usage_insert(s, ok)

SpecUsage == InitUsage /\ [][UsageNext]_vars

\* The join and leave commands of one guild whose users are in voice, and
\* the handler of the exceptions of commands.
ErrorsNext ==
    \/ \E s \in Slots, g \in OneGuild, u \in Users : join_dispatch(s, g, u)
    \/ \E s \in Slots : join_resume(s)
    \/ \E s \in Slots, g \in OneGuild : leave_dispatch(s, g)
    \/ \E s \in Slots : leave_resume(s)
    \/ \E e \in ErrorKinds : cog_command_error(e)

SpecErrors == InitInVoice /\ [][ErrorsNext]_vars

\* The users of one guild enter its voice channels and go from one to
\* another while no command is suspended, and join and play of a single
\* song are commanded.
GateNext ==
    \/ \E s \in Slots, u \in Users, after \in ChannelsOf(OneGuild) :
          /\ \A t \in Slots : cmd[t].op = "idle"
          /\ on_voice_state_update(s, u, after)
    \/ \E s \in Slots, g \in OneGuild, u \in Users : join_dispatch(s, g, u)
    \/ \E s \in Slots, g \in OneGuild, u \in Users :
          play_dispatch(s, g, u, FALSE, FALSE)
    \/ \E s \in Slots : join_resume(s)
    \/ \E s \in Slots : play_typing(s)
    \/ \E s \in Slots : play_created(s)

SpecGate == Init /\ [][GateNext]_vars

\* Two guilds, the first user in a voice channel of the first and the
\* others in a voice channel of the second.
InitTwoGuilds == InitWith([u \in Users |-> <<IF u = 1 THEN 1 ELSE 2, 1>>])

\* The play and playnext commands of a single song, in two guilds, with up
\* to MaxRivals of them dispatched.
FactoryNext ==
    \/ \E s \in Slots, g \in Guilds, u \in Users, next \in BOOLEAN :
          play_rival(s, g, u, next, FALSE)
    \/ \E s \in Slots : join_resume(s)
    \/ \E s \in Slots : play_typing(s)
    \/ \E s \in Slots : play_created(s)

SpecFactory == InitTwoGuilds /\ [][FactoryNext]_vars

\* The commands and the drivers of two guilds, whose users leave voice.
IsolationNext ==
    \/ \E s \in Slots, g \in Guilds, u \in Users : join_dispatch(s, g, u)
    \/ \E s \in Slots : join_resume(s)
    \/ \E s \in Slots, g \in Guilds : leave_dispatch(s, g)
    \/ \E s \in Slots : leave_resume(s)
    \/ \E s \in Slots, u \in Users : on_voice_state_update(s, u, NoChannel)
    \/ \E s \in Slots : autoleave_resume(s)
    \/ \E s \in Slots, g \in Guilds, u \in Users :
          play_dispatch(s, g, u, FALSE, FALSE)
    \/ \E s \in Slots : play_typing(s)
    \/ \E s \in Slots : play_created(s)
    \/ \E h \in Handles : driver_play_next(h)

SpecIsolation == InitTwoGuilds /\ [][IsolationNext]_vars

\* ------------------------------------------------------------ the claims
InLoop(s) == cmd[s].op = "play" /\ cmd[s].pc = "loop"

Added(s) == {add_log[s][k] : k \in DOMAIN add_log[s]}

\* A player that was constructed and is not in the registry: a leave deleted it.
Destroyed(h) == h <= created /\ \A g \in Guilds : audio_players[g] # h

\* C1: the enqueue loop adds the entries of a collection in collection
\* order whatever the order in which their signals fire: the k-th entry it
\* adds is entry k, and in the queue of a play command (play_next false) an
\* entry of the collection is never behind a later one.
C1_CollectionOrder ==
    \A s \in Slots :
        /\ \A k \in DOMAIN add_log[s] : add_log[s][k] = k
        /\ InLoop(s) /\ ~cmd[s].play_next =>
              \A h \in Handles : \A a, b \in DOMAIN song_queue[h] :
                  (/\ a < b
                   /\ song_queue[h][a][1] = cmd[s].req
                   /\ song_queue[h][b][1] = cmd[s].req)
                  => song_queue[h][a][2] < song_queue[h][b][2]

\* The signals fired in reverse order, and the loop has added every entry
\* but the last, in order.
C1_Witness ==
    \E s \in Slots :
        /\ InLoop(s)
        /\ ~cmd[s].play_next
        /\ resolve_log[s] = [k \in Entries |-> PlaylistLen + 1 - k]
        /\ add_log[s] = [k \in 1..(PlaylistLen - 1) |-> k]
        /\ song_queue[cmd[s].player] =
              [k \in 1..(PlaylistLen - 1) |-> <<cmd[s].req, k>>]

\* C2: an entry whose resolution failed is never added to the queue by the
\* enqueue loop.
C2_FailedNotAdded ==
    \A s \in Slots : \A i \in Added(s) : entry_state[s][i] # "failed"

\* C8: once a leave has deleted the player of a collection that is still
\* being enqueued, the loop adds no further entry.
C8_LoopCancelled ==
    [][\A s \in Slots :
         InLoop(s) /\ Destroyed(cmd[s].player) => add_log'[s] = add_log[s]]_vars

C10_LoopFinishes ==
    /\ \A s \in Slots :
          InLoop(s) ~> (report = [slot |-> s, what |-> "finished"])
    /\ [](\A s \in Slots : InLoop(s) =>
             \A i \in 1..(cmd[s].idx - 1) :
                 entry_state[s][i] = "resolved" => i \in Added(s))

\* The first entry failed and the second, resolved, was added after it.
C10_Witness ==
    \E s \in Slots :
        /\ InLoop(s)
        /\ cmd[s].idx > 2
        /\ entry_state[s][1] = "failed"
        /\ entry_state[s][2] = "resolved"
        /\ 2 \in Added(s)

\* C3: at most one live playback driver task exists per session handle in
\* every reachable state, and a driver is started only when the handle has
\* no driver task or its task is done.
C3_OneDriver ==
    /\ [](\A h \in Handles : live_drivers[h] <= 1)
    /\ [][\A h \in Handles : live_drivers'[h] > live_drivers[h]
                => audio_player_task[h] \in {"none", "done"}]_vars

\* A join is suspended on a player whose driver another join has started.
C3_Witness ==
    \E s \in Slots :
        /\ cmd[s].op = "join"
        /\ audio_player_task[cmd[s].player] = "running"
        /\ live_drivers[cmd[s].player] = 1
        /\ report.what = "ok"

\* C4: get_audio_player is idempotent: a registered handle stays the handle
\* of its guild until a successful leave deletes it, and a handle is
\* constructed only for a guild that has none, which it then is registered to.
C4_GetOrCreate ==
    [][/\ \A g \in Guilds :
             audio_players[g] # None =>
                \/ audio_players'[g] = audio_players[g]
                \/ audio_players'[g] = None /\ report'.what = "left"
       /\ created' # created =>
             /\ created' = created + 1
             /\ \E g \in Guilds : /\ audio_players[g] = None
                                   /\ audio_players'[g] = created'
                                   /\ get_audio_player(g).player = created']_vars

\* A second command got the handle the first one of its guild constructed.
C4_Witness ==
    \E s \in Slots :
        /\ cmd[s].op = "leave"
        /\ created = 1
        /\ cmd[s].player = 1
        /\ audio_players[cmd[s].guild] = 1
        /\ report.what = "ok"

\* C5: a leave dispatched for a player without a voice client tells the
\* user so, raises nothing and deletes nothing; a leave dispatched for a
\* player with a voice client goes on to disconnect, and when it completes
\* it has succeeded (nothing was raised) and the registry holds no handle
\* for its guild.
C5_Leave ==
    [][\A s \in Slots :
         /\ \A g \in Guilds :
              leave_dispatch(s, g) =>
                IF voice_client[get_audio_player(g).player] = NoChannel
                THEN /\ report' = [slot |-> s, what |-> "not_connected"]
                     /\ cmd' = cmd
                     /\ audio_players'[g] = get_audio_player(g).player
                ELSE /\ cmd'[s].op = "leave"
                     /\ report' = report
         /\ leave_resume(s) =>
              /\ report' = [slot |-> s, what |-> "left"]
              /\ audio_players'[cmd[s].guild] = None
              /\ voice_client'[cmd[s].player] = NoChannel]_vars

\* C6: whenever a user leaves the channel of a registered player's voice
\* client and no other user stays there, an automatic leave begins; and an
\* automatic leave begins only on such a departure.
C6_AutoLeave ==
    [][/\ \A u \in Users :
             (/\ member_channel[u] # NoChannel
              /\ member_channel'[u] # member_channel[u]
              /\ \E g \in Guilds : /\ audio_players[g] # None
                                    /\ voice_client[audio_players[g]] = member_channel[u]
              /\ \A v \in Users \ {u} : member_channel'[v] # member_channel[u])
             => \E s \in Slots : cmd[s].op = "idle" /\ cmd'[s].op = "autoleave"
       /\ \A s \in Slots :
             cmd[s].op = "idle" /\ cmd'[s].op = "autoleave" =>
                \E u \in Users :
                    /\ member_channel[u] = voice_client[cmd'[s].player]
                    /\ member_channel'[u] # member_channel[u]
                    /\ \A v \in Users : member_channel'[v] # member_channel[u]]_vars

\* C7: when a leave completes, explicit or automatic, the registry no longer
\* holds the handle that left.
C7_Destroyed ==
    [][\A s \in Slots :
         leave_resume(s) \/ autoleave_resume(s) =>
            \A g \in Guilds : audio_players'[g] # cmd[s].player]_vars

C12_PlayNextOrder ==
    [][\A s \in Slots :
         (/\ InLoop(s)
          /\ cmd[s].play_next
          /\ report' = [slot |-> s, what |-> "finished"]
          /\ \A i \in Entries : \E k \in DOMAIN song_queue'[cmd[s].player] :
                 song_queue'[cmd[s].player][k] = <<cmd[s].req, i>>)
         => \A i \in Entries : song_queue'[cmd[s].player][i] = <<cmd[s].req, i>>]_vars

\* C13: pause succeeds exactly when a song is playing, and then the song is
\* paused and still the current song; on an idle or a paused player it
\* reports failure and changes nothing.  resume succeeds exactly when the
\* current song is paused, and then it plays again; otherwise it reports
\* failure and changes nothing.
C13_PauseResume ==
    [][\A g \in Guilds :
         /\ pause(g) =>
               LET h == get_audio_player(g).player IN
               IF current_song[h] # NoSong /\ ~paused[h]
               THEN /\ report'.what = "paused"
                    /\ paused'[h]
                    /\ current_song' = current_song
               ELSE /\ report'.what \in {"not_playing", "already_paused"}
                    /\ UNCHANGED <<paused, current_song, song_queue, prev_songs,
                                   is_queue_looping>>
         /\ resume(g) =>
               LET h == get_audio_player(g).player IN
               IF current_song[h] # NoSong /\ paused[h]
               THEN /\ report'.what = "resumed"
                    /\ ~paused'[h]
                    /\ current_song' = current_song
               ELSE /\ report'.what \in {"not_playing", "already_playing"}
                    /\ UNCHANGED <<paused, current_song, song_queue, prev_songs,
                                   is_queue_looping>>]_vars

\* pause was commanded on a paused song.
C13_Witness ==
    /\ report.what = "already_paused"
    /\ \E h \in Handles : current_song[h] # NoSong /\ paused[h]

\* C14: back with no previous song tells the user so and leaves the queue,
\* the previous songs, the current song, the pause and the driver as they
\* are, whether or not a song is playing.
C14_BackEmptyHistory ==
    [][\A g \in Guilds :
         back(g) =>
            LET h == get_audio_player(g).player IN
            prev_songs[h] = <<>> =>
               /\ report'.what = "no_previous"
               /\ UNCHANGED <<song_queue, prev_songs, current_song, paused,
                              is_queue_looping, audio_player_task, live_drivers>>]_vars

\* back was refused while a song was playing.
C14_Witness ==
    /\ report.what = "no_previous"
    /\ \E h \in Handles : /\ current_song[h] # NoSong
                           /\ prev_songs[h] = <<>>
                           /\ audio_player_task[h] = "running"

\* C15: stop with a current song or a non-empty queue succeeds, empties the
\* queue and drops the current song without recording it in the previous
\* songs; stop with neither reports failure and changes nothing.  A back
\* that succeeds puts at the head of the queue the last of the previous
\* songs, which a stop never adds to.
C15_Stop ==
    [][\A g \in Guilds :
         /\ stop(g) =>
               LET h == get_audio_player(g).player IN
               IF current_song[h] # NoSong \/ song_queue[h] # <<>>
               THEN /\ report'.what = "stopped"
                    /\ song_queue'[h] = <<>>
                    /\ current_song'[h] = NoSong
                    /\ prev_songs' = prev_songs
               ELSE /\ report'.what = "not_playing"
                    /\ UNCHANGED <<song_queue, current_song, prev_songs, paused,
                                   is_queue_looping>>
         /\ back(g) /\ report'.what = "ok" =>
               LET h == get_audio_player(g).player IN
               /\ prev_songs[h] # <<>>
               /\ song_queue'[h][1] = prev_songs[h][Len(prev_songs[h])]]_vars

\* stop succeeded on a player that has a previous song, and left it the
\* only one.
C15_Witness ==
    /\ report.what = "stopped"
    /\ \E h \in Handles : /\ current_song[h] = NoSong
                           /\ song_queue[h] = <<>>
                           /\ prev_songs[h] = <<<<1, 1>>>>
                           /\ \E s \in Slots : InLoop(s) /\ cmd[s].idx = 3

\* C19: when the song of a looping player finishes, it is added to the tail
\* of the queue and recorded once in the previous songs; the loop command
\* flips the flag at every call and tells the user the value after the flip.
C19_Loop ==
    [][/\ \A h \in Handles :
             driver_song_finished(h) /\ is_queue_looping[h] =>
                /\ song_queue'[h] = Append(song_queue[h], current_song[h])
                /\ prev_songs'[h] = Append(prev_songs[h], current_song[h])
                /\ current_song'[h] = NoSong
       /\ \A g \in Guilds :
             loop(g) =>
                LET h == get_audio_player(g).player IN
                /\ is_queue_looping'[h] = ~is_queue_looping[h]
                /\ report'.what = IF is_queue_looping'[h] THEN "looping"
                                  ELSE "not_looping"]_vars

\* The first song of a collection finished on a looping player and is now
\* behind the other songs.
C19_Witness ==
    \E h \in Handles :
        /\ is_queue_looping[h]
        /\ current_song[h] = NoSong
        /\ prev_songs[h] = <<<<1, 1>>>>
        /\ Len(song_queue[h]) >= 2
        /\ song_queue[h][Len(song_queue[h])] = <<1, 1>>
        /\ song_queue[h][1] = <<1, 2>>

\* C20: clear on a non-empty queue empties it, clear on an empty queue tells
\* the user that it is empty, and both leave the current song, the pause,
\* the previous songs, the loop flag, the driver and the voice client as
\* they are.
C20_Clear ==
    [][\A g \in Guilds :
         clear(g) =>
            LET h == get_audio_player(g).player IN
            /\ IF song_queue[h] # <<>>
               THEN /\ song_queue'[h] = <<>>
                    /\ report'.what = "cleared"
               ELSE /\ song_queue' = song_queue
                    /\ report'.what = "queue_empty"
            /\ UNCHANGED <<current_song, paused, prev_songs, is_queue_looping,
                           audio_player_task, live_drivers, voice_client>>]_vars

\* clear emptied the queue of a looping player that has a current song and
\* previous songs.
C20_Witness ==
    /\ report.what = "cleared"
    /\ \E h \in Handles : /\ song_queue[h] = <<>>
                           /\ current_song[h] # NoSong
                           /\ prev_songs[h] # <<>>
                           /\ is_queue_looping[h]

\* C16 as stated: remove with the position p on a queue of length n removes
\* and reports the p-th song and keeps the order of the others when
\* 1 <= p <= n, and otherwise reports an invalid index and leaves the queue
\* as it is.
C16_RemoveAt ==
    [][\A g \in Guilds : \A p \in RemovePositions :
         remove(g, p) =>
            LET h == get_audio_player(g).player
                n == Len(song_queue[h]) IN
            IF 1 <= p /\ p <= n
            THEN /\ report'.what = "removed"
                 /\ removed_song' = song_queue[h][p]
                 /\ song_queue'[h] = [k \in 1..(n - 1) |->
                        IF k < p THEN song_queue[h][k] ELSE song_queue[h][k + 1]]
            ELSE /\ report'.what = "invalid_index"
                 /\ song_queue' = song_queue]_vars

\* C16, amended: the same on a non-empty queue; on an empty queue remove
\* tells the user that the queue is empty and changes nothing.
C16_RemoveAtNonEmpty ==
    [][\A g \in Guilds : \A p \in RemovePositions :
         remove(g, p) =>
            LET h == get_audio_player(g).player
                n == Len(song_queue[h]) IN
            IF 1 <= p /\ p <= n
            THEN /\ report'.what = "removed"
                 /\ removed_song' = song_queue[h][p]
                 /\ song_queue'[h] = [k \in 1..(n - 1) |->
                        IF k < p THEN song_queue[h][k] ELSE song_queue[h][k + 1]]
            ELSE /\ report'.what = IF n = 0 THEN "empty_queue" ELSE "invalid_index"
                 /\ song_queue' = song_queue]_vars

\* The second of three queued songs was removed.
C16_Witness ==
    /\ report.what = "removed"
    /\ removed_song = <<1, 2>>
    /\ \E h \in Handles : song_queue[h] = <<<<1, 1>>, <<1, 3>>>>

\* C17: for every exception of a command the error handler sends exactly
\* one message to the user and completes without raising, whatever the
\* class of the exception.
C17_HandlerReports ==
    handled.error # "none" => handled.sent = 1 /\ ~handled.raised

\* The requester u is in no voice channel of guild g, or the guild's voice
\* client is connected to a channel other than the requester's.
NotWithBot(g, u) ==
    \/ AuthorVoice(g, u) = NoChannel
    \/ guild_voice[g] # NoChannel /\ guild_voice[g] # AuthorVoice(g, u)

\* C18: a join or a play by a requester who is in no voice channel, or while
\* the bot's voice client is connected to another channel than the
\* requester's, ends with a command error before the body runs: no voice
\* connection is made or moved, no driver is started, nothing is enqueued,
\* no player is constructed and no command is left suspended.
C18_Rejected ==
    [][\A s \in Slots, g \in OneGuild, u \in Users :
          NotWithBot(g, u)
             /\ (join_dispatch(s, g, u) \/ play_dispatch(s, g, u, FALSE, FALSE))
          => /\ report' = [slot |-> s, what |-> "CommandError"]
             /\ UNCHANGED <<voice_client, guild_voice, audio_player_task,
                            live_drivers, song_queue, current_song,
                            audio_players, created, cmd, plays>>]_vars

\* A command was rejected while the guild's voice client was connected and
\* the requester was in another channel of the guild.
C18_Witness ==
    /\ report.what = "CommandError"
    /\ guild_voice[1] # NoChannel
    /\ \E u \in Users : /\ AuthorVoice(1, u) # NoChannel
                        /\ AuthorVoice(1, u) # guild_voice[1]
    /\ \E h \in Handles : voice_client[h] = guild_voice[1]

\* C21: a player that has a connected voice client or a running driver task
\* is the handle the registry holds for some guild: no connected or playing
\* player is orphaned from the registry, under any interleaving of the
\* leave, join, play and playnext commands of a guild.
C21_NoOrphan ==
    \A h \in Handles :
        voice_client[h] # NoChannel \/ audio_player_task[h] = "running"
           => \E g \in Guilds : audio_players[g] = h

\* C22: from the moment a play or playnext command sets the context of the
\* shared song factory until its song or collection is created, the
\* factory's context is the context of that command and of no other.
C22_OwnContext ==
    \A s \in Slots :
        cmd[s].op = "play" /\ cmd[s].pc = "create" => song_factory_ctx = s

\* The session of guild g: its registry entry and, when it has one, the
\* queue, history, loop flag, current entry and driver of its player.
SessionOf(g) ==
    IF audio_players[g] = None
    THEN <<None>>
    ELSE <<audio_players[g], song_queue[audio_players[g]],
           prev_songs[audio_players[g]], is_queue_looping[audio_players[g]],
           current_song[audio_players[g]],
           audio_player_task[audio_players[g]]>>

\* The step is a voice-state event of user u, who was in a channel of guild g.
VoiceEventOf(g, u) ==
    /\ member_channel[u] # NoChannel
    /\ ChannelGuild(member_channel[u]) = g
    /\ \E s \in Slots, after \in Channels \cup {NoChannel} :
          on_voice_state_update(s, u, after)

\* The step is a command invoked in guild g, the resumption of one, a
\* voice-state event of guild g, or a step of the driver of its player.
StepOf(g) ==
    \/ \E s \in Slots, u \in Users : join_dispatch(s, g, u)
    \/ \E s \in Slots : leave_dispatch(s, g)
    \/ \E s \in Slots, u \in Users, next \in BOOLEAN, pl \in BOOLEAN :
          play_begin(s, g, u, next, pl)
    \/ \E s \in Slots :
          /\ cmd[s].guild = g
          /\ \/ join_resume(s) \/ leave_resume(s) \/ autoleave_resume(s)
             \/ play_typing(s) \/ play_created(s)
    \/ \E u \in Users : VoiceEventOf(g, u)
    \/ audio_players[g] # None /\ driver_play_next(audio_players[g])

\* C23 (first part): a command or a voice-state event of guild g leaves the
\* session of every other guild unchanged.
C23_OtherGuilds ==
    [][\A g \in Guilds :
          StepOf(g) => \A o \in Guilds \ {g} : SessionOf(o)' = SessionOf(o)]_vars

\* C23 (second part): a voice-state event of a guild with no session leaves
\* the registry unchanged.
C23_NoSession ==
    [][\A g \in Guilds, u \in Users :
          VoiceEventOf(g, u) /\ audio_players[g] = None
             => audio_players' = audio_players]_vars

\* C23: sessions are isolated: both parts.
C23_Isolated == C23_OtherGuilds /\ C23_NoSession

====
